---- MODULE Spec2Model ----
(***************************************************************************)
(* Job workflow and job store of the voice drama studio.                   *)
(*                                                                         *)
(* State: the job metadata list (localStorage), the blob store (IndexedDB),*)
(* the position of the running batch operation of BatchPage, and the       *)
(* in-memory state of the Studio page.                                     *)
(*                                                                         *)
(* Handlers run one at a time (one logical writer): a batch operation runs *)
(* to its end before another handler starts, and its steps are cut at the  *)
(* writes of the job record (updateBatchJob).                              *)
(***************************************************************************)
EXTENDS Integers, Sequences, FiniteSets, TLC

\* ---------------------------------------------------------------- bounds
MaxJobs == 2        \* jobs created in a run of the batch page alone
MaxJobsStudio == 1  \* jobs created in a run that also uses the Studio page
MaxItems == 2       \* items of a generated script
MaxScripts == 2     \* scripts generated for one job (fresh item ids each)
MaxStamps == 2      \* distinct Date.now() stamps of one job's output keys
MaxFaults == 1      \* blob store requests that fail in one run
MaxSessions == 1    \* times the Studio page is opened in one run
MaxFrames == 46     \* frames of an audio buffer
MaxChannels == 2    \* channels of an audio buffer
MaxPattern == 2     \* sample patterns of an audio buffer
MaxSample == 6      \* largest sample magnitude, in units of 1/Unit
MaxClips == 2       \* clips given to mergeAudioBuffers
MaxClipFrames == 2  \* frames of a clip given to mergeAudioBuffers
MaxSegments == 2    \* segments given to createDynamicWebmVideo
MaxImages == 2      \* distinct images of the segments of a video
MaxBytes == 5       \* size of the blob given to uploadToYouTube
ChunkSize == 2      \* the chunk size, in the unit the blob size is counted in
MaxPlayerItems == 2 \* items given to the Player
MaxSources == 3     \* audio sources the Player creates in one run
Unit == 4           \* sample resolution: sample value v stands for v/Unit

\* ---------------------------------------------------------------- constants
HeaderBytes == 44   \* the data offset bufferToWav writes at
ExportRate == 44100 \* sample rate of the merged buffer
ClipRate == 24000   \* sample rate of the shared AudioContext that decodes the clips

\* ---------------------------------------------------------------- values
\* jobId of a Studio page that edits no job
NoJob == 0

ItemTypes == {"speech", "sfx"}

\* a blob key; NoKey stands for an undefined key
Key(kind, j, a, b) == [kind |-> kind, job |-> j, a |-> a, b |-> b]
NoKey == Key("none", 0, 0, 0)

\* `${jobId}_item_${itemId}`, an item id being (script stamp, ordinal)
generateItemAudioKey(j, itemId) == Key("item", j, itemId[1], itemId[2])
\* `${jobId}_${type}_${Date.now()}`
generateAudioKey(j, type, now) == Key(type, j, now, 0)
\* `${jobId}_cover`
CoverKey(j) == Key("cover", j, 0, 0)

NoFiles == [mp3Key |-> NoKey, webmKey |-> NoKey, coverKey |-> NoKey]
NoScript == [defined |-> FALSE, items |-> <<>>]

\* the scripts a script generation may return: MaxItems items, speech and
\* sound effects alternating, starting with either
Alternating(first) ==
  [i \in 1..MaxItems |->
     IF i % 2 = 1 THEN first ELSE CHOOSE t \in ItemTypes : t # first]
Scripts == {Alternating(first) : first \in ItemTypes}

\* items of a freshly generated script: new ids, no audio yet
NewItems(script, stamp) ==
  [i \in 1..Len(script) |->
     [id |-> <<stamp, i>>, type |-> script[i], audioKey |-> NoKey]]

\* ---------------------------------------------------------------- state
VARIABLES
  jobs,       \* the metadata list: sequence of job records
  blobs,      \* keys present in the blob store
  dataUrlKeys, \* keys whose stored string is a data URL, not bare base64
  nextId,     \* next fresh job id
  page,       \* "batch" or "studio"
  bOp,        \* running batch operation: "idle", "scripts", "files", "upload", "auto"
  bQueue,     \* the jobs selected when the operation started (snapshots)
  bIdx,       \* loop index i (1-based)
  bPc,        \* step of the current job: "script", "filesA", "filesB", "uploadA", "uploadB"
  bJob,       \* the loop's `job` variable
  attempted,  \* ids of the jobs the running operation has started, in order
  sJob,       \* Studio: jobId prop (NoJob when not editing a job)
  sItems,     \* Studio: items state
  sCover,     \* Studio: coverArtBase64 is set
  sPub,       \* Studio publish section: mp3Blob, webmBlob, rssZipBlob are set
  cap,        \* how many jobs this run may create
  sessions,   \* times the Studio page has been opened
  faults,     \* blob store requests that have failed so far
  last,       \* what the last handler step did (calls and outcome)
  call,       \* a call of a function of the program: name, argument, result
  video,      \* a run of createWebmVideo / createDynamicWebmVideo
  upload,     \* a run of uploadToYouTube
  player      \* the Player component: props, refs and the audio sources it made

vars == <<jobs, blobs, dataUrlKeys, call, video, upload, player, nextId, page, bOp, bQueue, bIdx, bPc, bJob, attempted,
          sJob, sItems, sCover, sPub, cap, faults, sessions, last>>

\* the runs of the long-running utility functions
procVars == <<video, upload, player>>

batchVars == <<bOp, bQueue, bIdx, bPc, bJob, attempted>>
studioVars == <<sJob, sItems, sCover, sPub>>

\* the state of the application proper
appVars == <<jobs, blobs, dataUrlKeys, nextId, page, batchVars, studioVars,
             cap, sessions, faults, last>>

\* op/job/outcome/error: the handler step, its job, "ok" or "error", the thrown message
\* clips: the buffers handed to mergeAudioBuffers; outcomes, eleven: the step's inputs
\* rendered: createWebmVideo was called; keys/failed: keys collected / not deleted
\* cover, saveFailAt: cover art was obtained, the output save that was made to fail
\* audio: ids of the items that had audio when the step saved the job
\* returned: the buffers handleFillMissingAudio returns (item ids)
\* coverCall, encoded, published: handleGenerateAll called the cover art
\* generator / bufferToMp3 / uploadToYouTube
\* queue/attempted/done: filled by the step that ends a batch operation
\* gone: the job's record was already deleted when the rest of the step ran
NoLast == [op |-> "none", job |-> NoJob, outcome |-> "none", error |-> "none",
           clips |-> <<>>, outcomes |-> <<>>, eleven |-> FALSE, merged |-> FALSE,
           rendered |-> FALSE, cover |-> FALSE, saveFailAt |-> "none",
           keys |-> {}, failed |-> {}, audio |-> {}, returned |-> <<>>,
           coverCall |-> FALSE, encoded |-> FALSE, published |-> FALSE,
           queue |-> <<>>, attempted |-> <<>>, done |-> FALSE, gone |-> FALSE]

\* no function call
\* the publish section as it mounts: no output blob
NoPub == [mp3 |-> FALSE, webm |-> FALSE, rss |-> FALSE]

NoOut == [type |-> "none"]

\* no upload running; sent: the chunk starts already sent, resent: the
\* request in flight repeats a range that was sent before
NoUpload == [pc |-> "idle", totalBytes |-> 0, bytesUploaded |-> 0,
             start |-> 0, end |-> 0, sent |-> {}, resent |-> FALSE]

\* the Player before it is mounted
NoPlayer == [items |-> <<>>, enableSfx |-> FALSE, isPlaying |-> FALSE,
             currentIdx |-> 0, active |-> 0, sources |-> <<>>, lateStart |-> FALSE]
NoCall == [fn |-> "none", done |-> FALSE, arg |-> NoOut, out |-> NoOut]

\* no run of the video functions
NoVideo == [pc |-> "idle", legacy |-> FALSE, segments |-> <<>>, defaultCover |-> 0,
            toDecode |-> {}, seg |-> 0, open |-> 0, settled |-> "pending",
            events |-> <<>>]

\* ---------------------------------------------------------------- job store
AsJob(f) ==
  [id |-> f.id, status |-> f.status, error |-> f.error,
   scriptData |-> f.scriptData, files |-> f.files]

NewJob(id) ==
  [id |-> id, status |-> "pending", error |-> "none",
   scriptData |-> NoScript, files |-> NoFiles]

IndexOf(js, id) ==
  IF \E k \in 1..Len(js) : js[k].id = id
  THEN CHOOSE k \in 1..Len(js) : js[k].id = id
  ELSE 0

HasJob(js, id) == IndexOf(js, id) # 0

getBatchJob(js, id) == js[IndexOf(js, id)]

addBatchJob(js, job) == Append(js, job)

\* { ...jobs[index], ...updates }: the fields named in updates are replaced
updateBatchJob(js, id, updates) ==
  LET index == IndexOf(js, id) IN
  IF index # 0
  THEN [js EXCEPT ![index] = AsJob(updates @@ js[index])]
  ELSE js

ItemKeys(items) ==
  {items[k].audioKey : k \in {n \in 1..Len(items) : items[n].audioKey # NoKey}}

\* keysToDelete of deleteJobAudioFiles
KeysToDelete(job) ==
  ({job.files.mp3Key, job.files.webmKey, job.files.coverKey} \ {NoKey})
    \cup (IF job.scriptData.defined THEN ItemKeys(job.scriptData.items) ELSE {})

\* ---------------------------------------------------------------- init
\* empty job list and blob store, BatchPage mounted
InitStore(c) ==
  /\ cap = c
  /\ jobs = <<>>
  /\ blobs = {}
  /\ dataUrlKeys = {}
  /\ nextId = 1
  /\ page = "batch"
  /\ bOp = "idle"
  /\ bQueue = <<>>
  /\ bIdx = 0
  /\ bPc = "none"
  /\ bJob = NewJob(NoJob)
  /\ attempted = <<>>
  /\ sJob = NoJob
  /\ sItems = <<>>
  /\ sCover = FALSE
  /\ sPub = NoPub
  /\ faults = 0
  /\ sessions = 0
  /\ last = NoLast

\* the application as it starts: no utility function has been called
InitWith(c) == InitStore(c) /\ call = NoCall /\ video = NoVideo /\ upload = NoUpload /\ player = NoPlayer

Idle == bOp = "idle"

\* ---------------------------------------------------------------- BatchPage
\* handleAddJob: a new pending job
AddJob ==
  /\ Idle /\ page = "batch"
  /\ nextId <= cap
  /\ jobs' = addBatchJob(jobs, NewJob(nextId))
  /\ nextId' = nextId + 1
  /\ last' = [NoLast EXCEPT !.op = "add", !.job = nextId]
  /\ UNCHANGED <<blobs, dataUrlKeys, page, batchVars, studioVars, cap, call, procVars, sessions, faults>>

\* handleDeleteJob -> deleteBatchJob: every collected key is deleted, a
\* failing delete is caught and logged, then the record is filtered out
deleteBatchJob(id, failed) ==
  LET keys == IF HasJob(jobs, id) THEN KeysToDelete(getBatchJob(jobs, id)) ELSE {}
  IN /\ failed \subseteq (keys \cap blobs)
     /\ faults' = faults + Cardinality(failed)
     /\ blobs' = blobs \ (keys \ failed)
     /\ dataUrlKeys' = dataUrlKeys \ (keys \ failed)
     /\ jobs' = SelectSeq(jobs, LAMBDA j : j.id # id)
     /\ last' = [NoLast EXCEPT !.op = "delete", !.job = id, !.keys = keys,
                               !.failed = failed]

DeleteJob ==
  /\ Idle /\ page = "batch"
  /\ \E k \in 1..Len(jobs) :
       \E failed \in SUBSET (KeysToDelete(jobs[k]) \cap blobs) :
         /\ faults + Cardinality(failed) <= MaxFaults
         /\ deleteBatchJob(jobs[k].id, failed)
  /\ UNCHANGED <<nextId, page, batchVars, studioVars, cap, call, procVars, sessions>>

\* ---------------------------------------------------------------- fresh ids
Min(S) == CHOOSE x \in S : \A y \in S : x <= y

ItemStamps(items) == {items[k].id[1] : k \in 1..Len(items)}

\* script stamps already used for job j (crypto.randomUUID never repeats)
UsedScriptStamps(j) ==
  {k.a : k \in {b \in blobs : b.kind = "item" /\ b.job = j}}
    \cup (IF HasJob(jobs, j) THEN ItemStamps(getBatchJob(jobs, j).scriptData.items) ELSE {})
    \cup (IF sJob = j THEN ItemStamps(sItems) ELSE {})

HasFreshScript(j) == (0..(MaxScripts - 1)) \ UsedScriptStamps(j) # {}
FreshScript(j) == Min((0..(MaxScripts - 1)) \ UsedScriptStamps(j))

\* Date.now() stamps already used in output keys of job j
UsedStamps(j) ==
  {k.a : k \in {b \in blobs : b.kind \in {"mp3", "webm"} /\ b.job = j}}

HasFreshStamp(j) == (0..(MaxStamps - 1)) \ UsedStamps(j) # {}
Now(j) == Min((0..(MaxStamps - 1)) \ UsedStamps(j))

\* ---------------------------------------------------------------- App handlers
\* handleGenerateScript: the job with status script_ready and the new script
AppGenerateScript(job, script, stamp) ==
  [job EXCEPT !.status = "script_ready",
              !.scriptData = [defined |-> TRUE, items |-> NewItems(script, stamp)]]

ItemOutcomes == {"ok", "synthFail", "saveFail"}

NoAcc == [buffers |-> <<>>, items |-> <<>>, saved |-> {}, thrown |-> "none"]

\* a speech branch that records the key before the save is known to have worked
SpeechItemKeyBeforeSave(acc, j, idx, outcome) ==
  LET item == acc.items[idx]
      audioKey == generateItemAudioKey(j, item.id)
  IN CASE outcome = "ok" ->
            [acc EXCEPT !.buffers = Append(@, item.id),
                        !.saved = @ \cup {audioKey},
                        !.items[idx].audioKey = audioKey]
       [] outcome = "saveFail" ->
            [acc EXCEPT !.buffers = Append(@, item.id),
                        !.items[idx].audioKey = audioKey]
       [] OTHER -> acc

\* speech branch of the item loop: try { synthesize; decode; push; save; set key } catch { log }
SpeechItem(acc, j, idx, outcome) ==
  LET item == acc.items[idx]
      audioKey == generateItemAudioKey(j, item.id)
  IN CASE outcome = "ok" ->
            [acc EXCEPT !.buffers = Append(@, item.id),
                        !.saved = @ \cup {audioKey},
                        !.items[idx].audioKey = audioKey]
       [] outcome = "saveFail" ->
            [acc EXCEPT !.buffers = Append(@, item.id)]
       [] OTHER -> acc

\* sfx branch of the item loop: no try/catch, skipped without the ElevenLabs key
SfxItem(acc, j, idx, outcome, eleven) ==
  LET item == acc.items[idx]
      audioKey == generateItemAudioKey(j, item.id)
  IN CASE ~eleven -> acc
       [] outcome = "ok" ->
            [acc EXCEPT !.buffers = Append(@, item.id),
                        !.saved = @ \cup {audioKey},
                        !.items[idx].audioKey = audioKey]
       [] outcome = "saveFail" ->
            [acc EXCEPT !.buffers = Append(@, item.id),
                        !.thrown = "Failed to save audio"]
       [] OTHER -> [acc EXCEPT !.thrown = "SFX generation failed"]

\* for (let idx = 0; idx < items.length; idx++): stops at the first throw
ItemLoop(j, items, outcomes, eleven) ==
  LET F[idx \in 0..Len(items)] ==
        IF idx = 0 THEN [NoAcc EXCEPT !.items = items]
        ELSE LET acc == F[idx - 1] IN
             IF acc.thrown # "none" THEN acc
             ELSE IF items[idx].type = "speech"
                  THEN SpeechItem(acc, j, idx, outcomes[idx])
                  ELSE SfxItem(acc, j, idx, outcomes[idx], eleven)
  IN F[Len(items)]

\* the items the loop issues a synthesis call for: speech always, a sound
\* effect with the ElevenLabs key, none after a throw
ItemCalls(items, outcomes, eleven) ==
  {k \in 1..Len(items) :
     /\ items[k].type = "speech" \/ eleven
     /\ \A n \in 1..(k - 1) :
          ~(items[n].type = "sfx" /\ eleven /\ outcomes[n] # "ok")}

\* the failing saves among the outcomes of an item loop
SaveFaults(outcomes) == Cardinality({k \in DOMAIN outcomes : outcomes[k] = "saveFail"})

\* a handler that never checks for an empty clip list
NoAudioUnchecked(buffers) == FALSE

\* if (audioBuffers.length === 0) throw new Error('No audio generated')
NoAudio(buffers) == Len(buffers) = 0

\* cover art: generated only with a Gemini key, a failure is logged
CoverArt(gemini, coverOk) == gemini /\ coverOk

\* a handler that renders the video whether or not there is a cover
VideoAlways(cover) == TRUE

\* if (coverBase64) { webmBlob = await createWebmVideo(...) }
VideoWanted(cover) == cover

\* the part of handleGenerateFiles after updateBatchJob(generating):
\* [thrown, blobs saved, job to write, clips merged, renderer called]
GenerateFilesResult(job, outcomes, eleven, gemini, coverOk, videoOk, saveFailAt, now) ==
  LET acc == ItemLoop(job.id, job.scriptData.items, outcomes, eleven)
      cover == CoverArt(gemini, coverOk)
      webm == VideoWanted(cover)
      mp3Key == generateAudioKey(job.id, "mp3", now)
      webmKey == IF webm THEN generateAudioKey(job.id, "webm", now) ELSE NoKey
      coverKey == IF cover THEN CoverKey(job.id) ELSE NoKey
      base == [thrown |-> "none", saved |-> acc.saved, job |-> job,
               clips |-> <<>>, merged |-> FALSE, rendered |-> FALSE]
      made == [base EXCEPT !.clips = acc.buffers, !.merged = TRUE, !.rendered = webm]
      updatedJob == [job EXCEPT !.status = "files_ready",
                                !.scriptData.items = acc.items,
                                !.files = [mp3Key |-> mp3Key, webmKey |-> webmKey,
                                           coverKey |-> coverKey]]
  IN CASE acc.thrown # "none" -> [base EXCEPT !.thrown = acc.thrown]
       [] NoAudio(acc.buffers) -> [base EXCEPT !.thrown = "No audio generated"]
       [] webm /\ ~videoOk -> [made EXCEPT !.thrown = "Video creation failed"]
       [] saveFailAt = "mp3" -> [made EXCEPT !.thrown = "Failed to save file"]
       [] saveFailAt = "webm" /\ webm ->
            [made EXCEPT !.thrown = "Failed to save file",
                         !.saved = @ \cup {mp3Key}]
       [] saveFailAt = "cover" /\ cover ->
            [made EXCEPT !.thrown = "Failed to save file",
                         !.saved = @ \cup ({mp3Key, webmKey} \ {NoKey})]
       [] OTHER ->
            [made EXCEPT !.saved = @ \cup ({mp3Key, webmKey, coverKey} \ {NoKey}),
                         !.job = updatedJob]

\* handleUploadToYouTube before updateBatchJob(uploading): the message thrown, if any
UploadPrecheck(job, token) ==
  IF job.files.webmKey = NoKey THEN "No WebM file"
  ELSE IF ~token THEN "Not logged in to YouTube"
  ELSE "none"

\* handleUploadToYouTube after updateBatchJob(uploading): the message thrown, if any
UploadResult(job, store, uploadOk) ==
  IF job.files.webmKey \notin store THEN "WebM file not found"
  ELSE IF ~uploadOk THEN "Upload failed"
  ELSE "none"

\* ---------------------------------------------------------------- batch loop
\* the status a batch operation selects
Selects(op) ==
  CASE op = "scripts" -> "pending"
    [] op = "files" -> "script_ready"
    [] op = "upload" -> "files_ready"
    [] OTHER -> "pending"

FirstPc(op) ==
  CASE op = "scripts" -> "script"
    [] op = "files" -> "filesA"
    [] op = "upload" -> "uploadA"
    [] OTHER -> "script"

Ids(js) == [k \in 1..Len(js) |-> js[k].id]

\* a catch block that also resets the job's outputs
CatchErrorReset(js, id, msg) ==
  updateBatchJob(js, id, [status |-> "error", error |-> msg, files |-> NoFiles])

\* the catch block of every batch loop
CatchError(js, id, msg) == updateBatchJob(js, id, [status |-> "error", error |-> msg])

\* jobs.filter(j => j.status === ...) and the loop set-up
StartBatch(op) ==
  LET selected == SelectSeq(jobs, LAMBDA j : j.status = Selects(op)) IN
  /\ Idle /\ page = "batch"
  /\ Len(selected) > 0
  /\ \A k \in 1..Len(selected) :
       /\ op \in {"scripts", "auto"} => HasFreshScript(selected[k].id)
       /\ op \in {"files", "auto"} => HasFreshStamp(selected[k].id)
  /\ bOp' = op
  /\ bQueue' = selected
  /\ bIdx' = 1
  /\ bJob' = selected[1]
  /\ bPc' = FirstPc(op)
  /\ attempted' = <<>>
  /\ last' = [NoLast EXCEPT !.op = "start"]
  /\ UNCHANGED <<jobs, blobs, dataUrlKeys, nextId, page, studioVars, cap, call, procVars, sessions, faults>>

handleGenerateAllScripts == StartBatch("scripts")
handleGenerateAllFiles == StartBatch("files")
handleUploadAll == StartBatch("upload")
handleAutoProcessAll == StartBatch("auto")

Attempt == IF bPc = FirstPc(bOp) THEN Append(attempted, bJob.id) ELSE attempted

\* a loop that ends the operation at the first job that fails
NextJobStopOnError(l) ==
  IF bIdx < Len(bQueue) /\ l.outcome # "error"
  THEN /\ bIdx' = bIdx + 1
       /\ bJob' = bQueue[bIdx + 1]
       /\ bPc' = FirstPc(bOp)
       /\ attempted' = Attempt
       /\ last' = l
       /\ UNCHANGED <<bOp, bQueue>>
  ELSE /\ bOp' = "idle"
       /\ bQueue' = <<>>
       /\ bIdx' = 0
       /\ bJob' = NewJob(NoJob)
       /\ bPc' = "none"
       /\ attempted' = <<>>
       /\ last' = [l EXCEPT !.queue = Ids(bQueue), !.attempted = Attempt,
                            !.done = TRUE]

\* the loop goes to the next job, or the operation ends
NextJob(l) ==
  IF bIdx < Len(bQueue)
  THEN /\ bIdx' = bIdx + 1
       /\ bJob' = bQueue[bIdx + 1]
       /\ bPc' = FirstPc(bOp)
       /\ attempted' = Attempt
       /\ last' = l
       /\ UNCHANGED <<bOp, bQueue>>
  ELSE /\ bOp' = "idle"
       /\ bQueue' = <<>>
       /\ bIdx' = 0
       /\ bJob' = NewJob(NoJob)
       /\ bPc' = "none"
       /\ attempted' = <<>>
       /\ last' = [l EXCEPT !.queue = Ids(bQueue), !.attempted = Attempt,
                            !.done = TRUE]

\* the same job goes on to its next step (Auto Process)
NextStep(pc, job, l) ==
  /\ bPc' = pc
  /\ bJob' = job
  /\ attempted' = Attempt
  /\ last' = l
  /\ UNCHANGED <<bOp, bQueue, bIdx>>

\* onGenerateScript(job) inside the loop, with its catch
BatchScript ==
  /\ bOp \in {"scripts", "auto"} /\ bPc = "script"
  /\ \E ok \in BOOLEAN, script \in Scripts :
       LET updatedJob == AppGenerateScript(bJob, script, FreshScript(bJob.id))
           l == [NoLast EXCEPT !.op = "script", !.job = bJob.id]
       IN IF ok
          THEN /\ jobs' = updateBatchJob(jobs, bJob.id, updatedJob)
               /\ IF bOp = "auto"
                  THEN NextStep("filesA", updatedJob, [l EXCEPT !.outcome = "ok"])
                  ELSE NextJob([l EXCEPT !.outcome = "ok"])
          ELSE /\ jobs' = CatchError(jobs, bJob.id, "Script generation failed")
               /\ NextJob([l EXCEPT !.outcome = "error",
                                    !.error = "Script generation failed"])
  /\ UNCHANGED <<blobs, dataUrlKeys, nextId, page, studioVars, cap, call, procVars, sessions, faults>>

\* onGenerateFiles(job) up to updateBatchJob(job.id, { status: 'generating' })
BatchFilesA ==
  /\ bOp \in {"files", "auto"} /\ bPc = "filesA"
  /\ LET l == [NoLast EXCEPT !.op = "filesA", !.job = bJob.id] IN
     IF ~bJob.scriptData.defined
     THEN /\ jobs' = CatchError(jobs, bJob.id, "No script data")
          /\ NextJob([l EXCEPT !.outcome = "error", !.error = "No script data"])
     ELSE /\ jobs' = updateBatchJob(jobs, bJob.id, [status |-> "generating"])
          /\ NextStep("filesB", bJob, [l EXCEPT !.outcome = "ok"])
  /\ UNCHANGED <<blobs, dataUrlKeys, nextId, page, studioVars, cap, call, procVars, sessions, faults>>

\* the rest of onGenerateFiles(job), with the loop's catch
BatchFilesB ==
  /\ bOp \in {"files", "auto"} /\ bPc = "filesB"
  /\ \E outcomes \in [1..Len(bJob.scriptData.items) -> ItemOutcomes],
        eleven \in BOOLEAN, gemini \in BOOLEAN, coverOk \in BOOLEAN,
        videoOk \in BOOLEAN, saveFailAt \in {"none", "mp3", "webm", "cover"} :
       LET r == GenerateFilesResult(bJob, outcomes, eleven, gemini, coverOk,
                                    videoOk, saveFailAt, Now(bJob.id))
           n == SaveFaults(outcomes) + (IF saveFailAt = "none" THEN 0 ELSE 1)
           l == [NoLast EXCEPT !.op = "filesB", !.job = bJob.id,
                               !.gone = ~HasJob(jobs, bJob.id),
                               !.clips = r.clips, !.merged = r.merged,
                               !.rendered = r.rendered,
                               !.outcomes = outcomes, !.eleven = eleven,
                               !.cover = CoverArt(gemini, coverOk),
                               !.saveFailAt = saveFailAt,
                               !.audio = {r.clips[k] : k \in DOMAIN r.clips}]
       IN /\ faults + n <= MaxFaults
          /\ \A k \in DOMAIN outcomes :
               k \notin ItemCalls(bJob.scriptData.items, outcomes, eleven)
                 => outcomes[k] = "ok"
          /\ saveFailAt # "none" => r.thrown = "Failed to save file"
          /\ faults' = faults + n
          /\ blobs' = blobs \cup r.saved
          /\ dataUrlKeys' = dataUrlKeys \ r.saved
          /\ IF r.thrown = "none"
             THEN /\ jobs' = updateBatchJob(jobs, bJob.id, r.job)
                  /\ IF bOp = "auto"
                     THEN NextStep("uploadA", r.job, [l EXCEPT !.outcome = "ok"])
                     ELSE NextJob([l EXCEPT !.outcome = "ok"])
             ELSE /\ jobs' = CatchError(jobs, bJob.id, r.thrown)
                  /\ NextJob([l EXCEPT !.outcome = "error", !.error = r.thrown])
  /\ UNCHANGED <<nextId, page, studioVars, cap, call, procVars, sessions>>

\* onUploadToYouTube(job) up to updateBatchJob(job.id, { status: 'uploading' })
BatchUploadA ==
  /\ bOp \in {"upload", "auto"} /\ bPc = "uploadA"
  /\ \E token \in BOOLEAN :
       LET msg == UploadPrecheck(bJob, token)
           l == [NoLast EXCEPT !.op = "uploadA", !.job = bJob.id]
       IN IF msg # "none"
          THEN /\ jobs' = CatchError(jobs, bJob.id, msg)
               /\ NextJob([l EXCEPT !.outcome = "error", !.error = msg])
          ELSE /\ jobs' = updateBatchJob(jobs, bJob.id, [status |-> "uploading"])
               /\ NextStep("uploadB", bJob, [l EXCEPT !.outcome = "ok"])
  /\ UNCHANGED <<blobs, dataUrlKeys, nextId, page, studioVars, cap, call, procVars, sessions, faults>>

\* the rest of onUploadToYouTube(job), with the loop's catch
BatchUploadB ==
  /\ bOp \in {"upload", "auto"} /\ bPc = "uploadB"
  /\ \E uploadOk \in BOOLEAN :
       LET msg == UploadResult(bJob, blobs, uploadOk)
           l == [NoLast EXCEPT !.op = "uploadB", !.job = bJob.id,
                               !.gone = ~HasJob(jobs, bJob.id)]
       IN IF msg # "none"
          THEN /\ jobs' = CatchError(jobs, bJob.id, msg)
               /\ NextJob([l EXCEPT !.outcome = "error", !.error = msg])
          ELSE /\ jobs' = updateBatchJob(jobs, bJob.id,
                                         [bJob EXCEPT !.status = "uploaded"])
               /\ NextJob([l EXCEPT !.outcome = "ok"])
  /\ UNCHANGED <<blobs, dataUrlKeys, nextId, page, studioVars, cap, call, procVars, sessions, faults>>

\* ---------------------------------------------------------------- StudioPage
\* decodeBase64: atob throws on a string that is not bare base64
DecodesBase64(key, urls) == key \notin urls

\* loadFromJob: an item gets its buffer back when its blob is found and decodes
LoadItems(items, store, urls) ==
  [k \in 1..Len(items) |->
     [id |-> items[k].id, type |-> items[k].type, audioKey |-> items[k].audioKey,
      audioBuffer |-> /\ items[k].audioKey # NoKey
                      /\ items[k].audioKey \in store
                      /\ DecodesBase64(items[k].audioKey, urls)]]

\* items.map(i => ({ ...i, audioBuffer: undefined }))
StripBuffers(items) ==
  [k \in 1..Len(items) |->
     [id |-> items[k].id, type |-> items[k].type, audioKey |-> items[k].audioKey]]

\* handleEditJob -> StudioPage mounts with jobId -> loadFromJob(getBatchJob(jobId))
handleEditJob ==
  /\ Idle /\ page = "batch"
  /\ \E k \in 1..Len(jobs) :
       LET job == jobs[k] IN
       /\ sJob' = job.id
       /\ sItems' = IF job.scriptData.defined
                    THEN LoadItems(job.scriptData.items, blobs, dataUrlKeys) ELSE <<>>
       /\ sCover' = (job.files.coverKey # NoKey /\ job.files.coverKey \in blobs)
       /\ sPub' = NoPub
       /\ last' = [NoLast EXCEPT !.op = "edit", !.job = job.id]
  /\ page' = "studio"
  /\ sessions < MaxSessions /\ sessions' = sessions + 1
  /\ UNCHANGED <<jobs, blobs, dataUrlKeys, nextId, batchVars, cap, call, procVars, faults>>

\* the Studio tab: StudioPage mounts without a job
OpenStudio ==
  /\ Idle /\ page = "batch"
  /\ page' = "studio"
  /\ sJob' = NoJob /\ sItems' = <<>> /\ sCover' = FALSE /\ sPub' = NoPub
  /\ last' = [NoLast EXCEPT !.op = "studio"]
  /\ sessions < MaxSessions /\ sessions' = sessions + 1
  /\ UNCHANGED <<jobs, blobs, dataUrlKeys, nextId, batchVars, cap, call, procVars, faults>>

\* the Batch tab: StudioPage unmounts and its state is dropped
CloseStudio ==
  /\ page = "studio"
  /\ page' = "batch"
  /\ sJob' = NoJob /\ sItems' = <<>> /\ sCover' = FALSE /\ sPub' = NoPub
  /\ last' = [NoLast EXCEPT !.op = "close"]
  /\ UNCHANGED <<jobs, blobs, dataUrlKeys, nextId, batchVars, cap, call, procVars, sessions, faults>>

\* the update StudioPage.handleGenerateScript writes to the opened job
StudioScriptUpdate(items) ==
  [status |-> "script_ready",
   scriptData |-> [defined |-> TRUE, items |-> StripBuffers(items)]]

\* StudioPage.handleGenerateScript
StudioGenerateScript ==
  /\ page = "studio"
  /\ HasFreshScript(sJob)
  /\ \E ok \in BOOLEAN, script \in Scripts :
       LET items == LoadItems(NewItems(script, FreshScript(sJob)), {}, {})
           l == [NoLast EXCEPT !.op = "studioScript", !.job = sJob]
       IN IF ok
          THEN /\ sItems' = items
               /\ jobs' = IF sJob # NoJob
                          THEN updateBatchJob(jobs, sJob, StudioScriptUpdate(items))
                          ELSE jobs
               /\ last' = [l EXCEPT !.outcome = "ok"]
          ELSE /\ sItems' = <<>>
               /\ jobs' = jobs
               /\ last' = [l EXCEPT !.outcome = "error",
                                    !.error = "Failed to generate script."]
  /\ UNCHANGED <<blobs, dataUrlKeys, nextId, page, batchVars, sJob, sPub, sCover, cap, call, procVars, sessions, faults>>

\* handleFillMissingAudio: the items a synthesis call is issued for
NeedsAudioAll(items, eleven) ==
  {k \in 1..Len(items) : items[k].type = "sfx" => eleven}

NeedsAudio(items, eleven) ==
  {k \in 1..Len(items) :
     /\ ~items[k].audioBuffer
     /\ items[k].type = "sfx" => eleven}

\* what handleFillMissingAudio returns: the existing buffers when no item lacks
\* audio, else the buffers of the calls that succeeded, in item order
FillReturns(items, calls, outcomes) ==
  IF \A k \in 1..Len(items) : items[k].audioBuffer
  THEN Ids(items)
  ELSE Ids(SelectSeq([k \in 1..Len(items) |->
                        [id |-> items[k].id, made |-> k \in calls /\ outcomes[k] = "ok"]],
                     LAMBDA x : x.made))

\* StudioPage.handleFillMissingAudio
StudioFillMissingAudio ==
  /\ page = "studio"
  /\ Len(sItems) > 0
  /\ \E eleven \in BOOLEAN, outcomes \in [1..Len(sItems) -> {"ok", "synthFail"}] :
       LET calls == NeedsAudio(sItems, eleven) IN
       /\ \A k \in 1..Len(sItems) : k \notin calls => outcomes[k] = "ok"
       /\ sItems' = [k \in 1..Len(sItems) |->
                       IF k \in calls /\ outcomes[k] = "ok"
                       THEN [sItems[k] EXCEPT !.audioBuffer = TRUE]
                       ELSE sItems[k]]
       /\ last' = [NoLast EXCEPT !.op = "fill", !.job = sJob, !.keys = calls,
                                 !.returned = FillReturns(sItems, calls, outcomes)]
  /\ UNCHANGED <<jobs, blobs, dataUrlKeys, nextId, page, batchVars, sJob, sPub, sCover, cap, call, procVars, sessions, faults>>

\* cover art generated in the publish section of the Studio page
StudioGenerateCover ==
  /\ page = "studio"
  /\ ~sCover
  /\ sCover' = TRUE
  /\ last' = [NoLast EXCEPT !.op = "cover", !.job = sJob]
  /\ UNCHANGED <<jobs, blobs, dataUrlKeys, nextId, page, batchVars, sJob, sPub, sItems, cap, call, procVars, sessions, faults>>

\* ids of the Studio items that hold an audio buffer
WithAudio(items) == {items[k].id : k \in {i \in 1..Len(items) : items[i].audioBuffer}}

\* allAudioGenerated of the publish section
AllAudioGenerated(items) == \A k \in 1..Len(items) : items[k].audioBuffer

\* PodcastPublishSection.handleGenerateAll ("generate all"), with a podcast title
\* and author entered. It clears the outputs and the cover art, fills the
\* missing audio, merges, gets cover art when none was set, encodes, renders
\* the video over the items of its own render (those that had audio when it was
\* invoked), packages the feed and uploads when a publisher session exists.
handleGenerateAll ==
  /\ page = "studio"
  /\ \E eleven \in BOOLEAN, outcomes \in [1..Len(sItems) -> {"ok", "synthFail"}],
        gemini \in BOOLEAN, coverOk \in BOOLEAN, webmOk \in BOOLEAN,
        loggedIn \in BOOLEAN :
       LET all == AllAudioGenerated(sItems)
           calls == IF all THEN {} ELSE NeedsAudio(sItems, eleven)
           buffers == FillReturns(sItems, calls, outcomes)
           coverCall == ~sCover /\ gemini
           cover == sCover \/ (coverCall /\ coverOk)
           segments == WithAudio(sItems)
           render == cover /\ segments # {}
           webm == render /\ webmOk
           l == [NoLast EXCEPT !.op = "generateAll", !.job = sJob, !.keys = calls]
       IN /\ \A k \in 1..Len(sItems) : k \notin calls => outcomes[k] = "ok"
          /\ (\A k \in 1..Len(sItems) : sItems[k].type = "sfx" => sItems[k].audioBuffer)
               => eleven
          /\ (sCover \/ buffers = <<>>) => gemini
          /\ (~coverCall \/ buffers = <<>>) => coverOk
          /\ (~render \/ buffers = <<>>) => webmOk
          /\ (~webm \/ buffers = <<>>) => loggedIn
          /\ sItems' = [k \in 1..Len(sItems) |->
                          IF k \in calls /\ outcomes[k] = "ok"
                          THEN [sItems[k] EXCEPT !.audioBuffer = TRUE]
                          ELSE sItems[k]]
          /\ IF buffers = <<>>
             THEN /\ sCover' = FALSE
                  /\ sPub' = NoPub
                  /\ last' = [l EXCEPT !.outcome = "error",
                                       !.error = "No audio available"]
             ELSE /\ sCover' = (coverCall /\ coverOk)
                  /\ sPub' = [mp3 |-> TRUE, webm |-> webm, rss |-> TRUE]
                  /\ last' = [l EXCEPT !.outcome = "ok", !.clips = buffers,
                                       !.merged = TRUE, !.coverCall = coverCall,
                                       !.encoded = TRUE,
                                       !.rendered = render,
                                       !.published = (loggedIn /\ webm)]
  /\ UNCHANGED <<jobs, blobs, dataUrlKeys, nextId, page, batchVars, sJob, cap, call, procVars,
                 sessions, faults>>

\* the update handleSaveToJob writes to the opened job
SaveToJobUpdate(items, coverKey) ==
  [scriptData |-> [defined |-> TRUE, items |-> StripBuffers(items)],
   files |-> [mp3Key |-> NoKey, webmKey |-> NoKey, coverKey |-> coverKey]]

\* StudioPage.handleSaveToJob ("Save to Batch")
handleSaveToJob ==
  /\ page = "studio" /\ sJob # NoJob
  /\ \E putOk \in BOOLEAN :
       LET coverKey == IF sCover THEN CoverKey(sJob) ELSE NoKey
           l == [NoLast EXCEPT !.op = "saveToJob", !.job = sJob,
                               !.audio = WithAudio(sItems)]
       IN /\ ~putOk => (sCover /\ faults < MaxFaults)
          /\ IF putOk
             THEN /\ blobs' = blobs \cup ({coverKey} \ {NoKey})
                  /\ jobs' = updateBatchJob(jobs, sJob, SaveToJobUpdate(sItems, coverKey))
                  /\ faults' = faults
                  /\ last' = [l EXCEPT !.outcome = "ok"]
             ELSE /\ UNCHANGED <<blobs, jobs>>
                  /\ faults' = faults + 1
                  /\ last' = [l EXCEPT !.outcome = "error", !.error = "Failed to save file"]
  /\ UNCHANGED <<dataUrlKeys, nextId, page, batchVars, studioVars, cap, call, procVars, sessions>>

\* itemsToSave of handleSaveAsNewJob: an item with a buffer is stored under a new key
ItemsToSave(items, newJobId) ==
  [k \in 1..Len(items) |->
     [id |-> items[k].id, type |-> items[k].type,
      audioKey |-> IF items[k].audioBuffer
                   THEN generateItemAudioKey(newJobId, items[k].id)
                   ELSE items[k].audioKey]]

\* the job handleSaveAsNewJob adds
SavedAsNewJob(newJobId, items, coverKey) ==
  [id |-> newJobId, status |-> "script_ready", error |-> "none",
   scriptData |-> [defined |-> TRUE, items |-> ItemsToSave(items, newJobId)],
   files |-> [mp3Key |-> NoKey, webmKey |-> NoKey, coverKey |-> coverKey]]

\* StudioPage.handleSaveAsNewJob ("Save to Batch List"); failAt: the put that
\* rejects, an item index, 0 for none, -1 for the cover
handleSaveAsNewJob ==
  /\ page = "studio" /\ sJob = NoJob
  /\ Len(sItems) > 0
  /\ nextId <= cap
  /\ \E failAt \in {0, -1} \cup {k \in 1..Len(sItems) : sItems[k].audioBuffer} :
       LET withAudio == {k \in 1..Len(sItems) : sItems[k].audioBuffer}
           itemKeys == {generateItemAudioKey(nextId, sItems[k].id) : k \in withAudio \ {failAt}}
           coverKey == IF sCover THEN CoverKey(nextId) ELSE NoKey
           l == [NoLast EXCEPT !.op = "saveAsNew", !.job = nextId,
                               !.audio = WithAudio(sItems)]
       IN /\ failAt # 0 => faults < MaxFaults
          /\ failAt = -1 => sCover
          /\ nextId' = nextId + 1
          /\ dataUrlKeys' = dataUrlKeys \cup itemKeys
          /\ IF failAt = 0
             THEN /\ blobs' = blobs \cup itemKeys \cup ({coverKey} \ {NoKey})
                  /\ jobs' = addBatchJob(jobs, SavedAsNewJob(nextId, sItems, coverKey))
                  /\ faults' = faults
                  /\ page' = "batch"
                  /\ sJob' = NoJob /\ sItems' = <<>> /\ sCover' = FALSE /\ sPub' = NoPub
                  /\ last' = [l EXCEPT !.outcome = "ok"]
             ELSE /\ blobs' = blobs \cup itemKeys
                  /\ faults' = faults + 1
                  /\ last' = [l EXCEPT !.outcome = "error", !.error = "Failed to save file"]
                  /\ UNCHANGED <<jobs, page, studioVars>>
  /\ UNCHANGED <<batchVars, cap, call, procVars, sessions>>

\* ---------------------------------------------------------------- audioUtils
\* A sample is a multiple of 1/Unit; sample values lie in -MaxSample..MaxSample
\* (beyond -Unit..Unit the encoder clamps).
\* AudioBuffer.getChannelData(k)[j] of the input buffer with pattern p
Sample(p, k, j) == ((3 * j + 5 * k + p) % (2 * MaxSample + 1)) - MaxSample

\* the input buffers: n frames, c channels, sample pattern p
AudioBuffers ==
  [length : 0..MaxFrames, numberOfChannels : 1..MaxChannels, pattern : 0..MaxPattern]

\* a | 0 for the quotient a / b: truncation toward zero
Trunc(a, b) == IF a >= 0 THEN a \div b ELSE 0 - ((0 - a) \div b)

\* bufferToWav: clamp to [-1, 1], then scale to a 16-bit signed integer
Quantize(v) ==
  LET s == IF v < 0 - Unit THEN 0 - Unit ELSE IF v > Unit THEN Unit ELSE v
  IN IF Unit + 2 * s < 0 THEN Trunc(s * 32768, Unit) ELSE Trunc(s * 32767, Unit)

\* bufferToMp3: clamp to [-1, 1], scale, store in an Int16Array (the fraction
\* is dropped)
QuantizeMp3(v) ==
  LET s == IF v < 0 - Unit THEN 0 - Unit ELSE IF v > Unit THEN Unit ELSE v
  IN IF s < 0 THEN Trunc(s * 32768, Unit) ELSE Trunc(s * 32767, Unit)

\* the 16-bit value each encoder derives from one sample
QuantizeCall ==
  /\ call.fn = "quantize" /\ ~call.done
  /\ call' = [call EXCEPT !.done = TRUE,
                          !.out = [type |-> "int16",
                                   wav |-> Quantize(call.arg.sample),
                                   mp3 |-> QuantizeMp3(call.arg.sample)]]
  /\ UNCHANGED <<appVars, procVars>>

\* the byte widths of the header fields bufferToWav writes with setUint32/setUint16
HeaderWrites == <<4, 4, 4, 4, 4, 2, 2, 4, 4, 2, 2, 4, 4>>

RECURSIVE SumSeq(_)
SumSeq(s) == IF s = <<>> THEN 0 ELSE Head(s) + SumSeq(Tail(s))

\* the value of pos when the data loop of bufferToWav starts: every header
\* write has advanced it
PosAfterHeader == SumSeq(HeaderWrites)

\* bufferToWav: the 16-bit values of the ArrayBuffer after byte HeaderBytes.
\* The loop runs while pos < buffer.length, reads channels[i][pos] and writes
\* at HeaderBytes + offset, offset growing by 2 per value; what it does not
\* write keeps the ArrayBuffer's initial zero.
bufferToWav(buffer) ==
  LET n == buffer.length
      c == buffer.numberOfChannels
  IN [type |-> "audio/wav",
      byteLength |-> n * c * 2 + HeaderBytes,
      values |-> [x \in 0..(n * c - 1) |->
                    LET pos == PosAfterHeader + (x \div c)
                    IN IF pos < n THEN Quantize(Sample(buffer.pattern, x % c, pos))
                       ELSE 0]]

\* a call of bufferToWav
BufferToWavCall ==
  /\ call.fn = "bufferToWav" /\ ~call.done
  /\ call' = [call EXCEPT !.done = TRUE, !.out = bufferToWav(call.arg)]
  /\ UNCHANGED <<appVars, procVars>>

\* a clip given to mergeAudioBuffers: its length in frames and its sample rate
Clips == [length : 0..MaxClipFrames, sampleRate : {ClipRate, ExportRate}]

\* the clip lists mergeAudioBuffers can be given
ClipLists == UNION {[1..n -> Clips] : n \in 0..MaxClips}

RECURSIVE GCD(_, _)
GCD(a, b) == IF b = 0 THEN a ELSE GCD(b, a % b)

\* Durations are counted in ticks, the tick being the largest fraction of a
\* second in which a frame of either sample rate is a whole number.
TicksPerSecond == (ExportRate \div GCD(ExportRate, ClipRate)) * ClipRate

\* AudioBuffer.duration = length / sampleRate
Duration(buffer) == buffer.length * (TicksPerSecond \div buffer.sampleRate)

\* Math.ceil(a / b)
CeilDiv(a, b) == (a + b - 1) \div b

\* currentOffset advanced by frames taken at the export rate
NextOffsetByFrames(currentOffset, buffer) ==
  currentOffset + buffer.length * (TicksPerSecond \div ExportRate)

\* currentOffset += buffer.duration
NextOffset(currentOffset, buffer) == currentOffset + Duration(buffer)

\* the loop of mergeAudioBuffers from clip k on: each clip is started at
\* currentOffset
RECURSIVE Place(_, _, _)
Place(buffers, k, currentOffset) ==
  IF k > Len(buffers) THEN <<>>
  ELSE <<[clip |-> k, start |-> currentOffset, duration |-> Duration(buffers[k])]>>
       \o Place(buffers, k + 1, NextOffset(currentOffset, buffers[k]))

\* buffers.reduce((acc, b) => acc + b.duration, 0)
RECURSIVE TotalDuration(_)
TotalDuration(buffers) ==
  IF buffers = <<>> THEN 0
  ELSE Duration(Head(buffers)) + TotalDuration(Tail(buffers))

\* mergeAudioBuffers: an OfflineAudioContext(1, totalLength, 44100) renders the
\* clips one after the other; the platform refuses a context of length 0 with
\* NotSupportedError
mergeAudioBuffers(buffers) ==
  LET totalLength == CeilDiv(TotalDuration(buffers) * ExportRate, TicksPerSecond)
  IN IF totalLength = 0
     THEN [type |-> "error", name |-> "NotSupportedError", length |-> 0,
           numberOfChannels |-> 0, placed |-> <<>>]
     ELSE [type |-> "AudioBuffer", name |-> "merged", length |-> totalLength,
           numberOfChannels |-> 1, placed |-> Place(buffers, 1, 0)]

\* a call of mergeAudioBuffers
MergeCall ==
  /\ call.fn = "mergeAudioBuffers" /\ ~call.done
  /\ call' = [call EXCEPT !.done = TRUE, !.out = mergeAudioBuffers(call.arg.buffers)]
  /\ UNCHANGED <<appVars, procVars>>

\* the inputs of createDynamicWebmVideo: per segment whether it has an image,
\* whether a default cover is given, and whether the platform loads the images
\* and records without an error
VideoInputs ==
  [segments : UNION {[1..n -> BOOLEAN] : n \in 0..MaxSegments},
   defaultCover : BOOLEAN, platformOk : BOOLEAN]

\* drawImage of createDynamicWebmVideo: the segment's image, else the default
\* cover, else the black fill alone
drawImage(hasImage, defaultCover) ==
  IF hasImage THEN "image" ELSE IF defaultCover THEN "cover" ELSE "black"

\* createDynamicWebmVideo: one drawn frame per segment, then the recorder is
\* stopped and the promise resolves with the recorded blob; it rejects only
\* when an image fails to load or the recorder reports an error
createDynamicWebmVideo(segments, defaultCover, platformOk) ==
  IF ~platformOk
  THEN [type |-> "error", frames |-> <<>>]
  ELSE [type |-> "video/webm",
        frames |-> [k \in 1..Len(segments) |-> drawImage(segments[k], defaultCover)]]

\* a call of createDynamicWebmVideo
VideoCall ==
  /\ call.fn = "createDynamicWebmVideo" /\ ~call.done
  /\ call' = [call EXCEPT !.done = TRUE,
                          !.out = createDynamicWebmVideo(call.arg.segments,
                                                         call.arg.defaultCover,
                                                         call.arg.platformOk)]
  /\ UNCHANGED <<appVars, procVars>>

\* bufferToMp3: the encoded blob, or bufferToWav(buffer) from its catch block
\* when the encoder cannot be imported or throws
bufferToMp3(buffer, encoderOk) ==
  IF encoderOk
  THEN [type |-> "audio/mp3", encodes |-> buffer]
  ELSE bufferToWav(buffer)

\* the mixdown artifact of the batch pipeline: the blob handleGenerateFiles
\* stores, the key it stores it under, and the extension handleDownloadMp3
\* serves it with
StoredMixdown(buffer, encoderOk) ==
  [type |-> "mixdown",
   blob |-> bufferToMp3(buffer, encoderOk),
   key |-> generateAudioKey(1, "mp3", 1),
   extension |-> "mp3"]

\* the pipeline encodes, stores and serves the mixdown of a buffer
MixdownCall ==
  /\ call.fn = "bufferToMp3" /\ ~call.done
  /\ call' = [call EXCEPT !.done = TRUE,
                          !.out = StoredMixdown(call.arg.buffer, call.arg.encoderOk)]
  /\ UNCHANGED <<appVars, procVars>>

\* ---------------------------------------------------------------- video runs
\* A run of createDynamicWebmVideo, step by step. An image is a number of
\* 1..MaxImages, 0 standing for no image. video.open counts the audio contexts
\* that are open, video.settled is the state of the returned promise, and
\* video.events lists what has happened, in order.
VideoEvent(name, n) == <<name, n>>

\* the runs that can be started: createDynamicWebmVideo(segments, defaultCover),
\* or createWebmVideo(audioBlob, image, duration), which passes one segment
\* with the image as its own fallback
VideoRuns ==
  {[NoVideo EXCEPT !.pc = "called", !.segments = s, !.defaultCover = c] :
     s \in UNION {[1..n -> 0..MaxImages] : n \in 0..MaxSegments}, c \in 0..MaxImages}
  \cup
  {[NoVideo EXCEPT !.pc = "legacy", !.legacy = TRUE, !.segments = <<i>>,
                   !.defaultCover = i] : i \in 1..MaxImages}

\* uniqueImages: the default cover and the images of the segments
UniqueImages(segments, defaultCover) ==
  ({defaultCover} \cup {segments[k] : k \in 1..Len(segments)}) \ {0}

\* resolve / reject of a promise: the first call settles it
Settle(settled, how) == IF settled = "pending" THEN how ELSE settled

\* createWebmVideo: a context is opened to decode the audio blob; it is closed
\* after decodeAudioData has returned, and not when decodeAudioData rejects
WebmDecodeAudio ==
  /\ video.pc = "legacy"
  /\ \E ok \in BOOLEAN :
       video' = IF ok
                THEN [video EXCEPT !.pc = "called",
                                   !.events = Append(@, VideoEvent("audioDecoded", 0))]
                ELSE [video EXCEPT !.pc = "done", !.open = @ + 1,
                                   !.settled = Settle(@, "rejected")]
  /\ UNCHANGED <<appVars, call, upload, player>>

\* createDynamicWebmVideo up to the preload: canvas, new AudioContext(), the
\* set of unique images
WebmOpenContext ==
  /\ video.pc = "called"
  /\ video' = [video EXCEPT !.pc = "preload", !.open = @ + 1,
                            !.toDecode = UniqueImages(video.segments, video.defaultCover)]
  /\ UNCHANGED <<appVars, call, upload, player>>

\* the preload: an image loads, or its load fails and the awaited Promise.all
\* rejects, which ends the function
WebmPreloadImage ==
  /\ video.pc = "preload"
  /\ \E i \in video.toDecode, ok \in BOOLEAN :
       video' = IF ok
                THEN [video EXCEPT !.toDecode = @ \ {i},
                                   !.events = Append(@, VideoEvent("decoded", i))]
                ELSE [video EXCEPT !.pc = "done", !.settled = Settle(@, "rejected"),
                                   !.events = Append(@, VideoEvent("decodeFailed", i))]
  /\ UNCHANGED <<appVars, call, upload, player>>

\* what mediaRecorder.start() and the lines after it add: the start of the
\* capture and the immediate draw of the first segment's image
StartEvents(segments) ==
  <<VideoEvent("start", 0)>> \o
  (IF Len(segments) > 0 THEN <<VideoEvent("draw", 1)>> ELSE <<>>)

\* a recorder started without waiting for the images
WebmStartRecordingEarly ==
  /\ video.pc = "preload"
  /\ video' = [video EXCEPT !.pc = "segments", !.seg = 1,
                            !.events = @ \o StartEvents(video.segments)]
  /\ UNCHANGED <<appVars, call, upload, player>>

\* every image is loaded: the recorder is created and mediaRecorder.start() is called
WebmStartRecording ==
  /\ video.pc = "preload" /\ video.toDecode = {}
  /\ video' = [video EXCEPT !.pc = "segments", !.seg = 1,
                            !.events = @ \o StartEvents(video.segments)]
  /\ UNCHANGED <<appVars, call, upload, player>>

\* one pass of the segment loop: draw the image, start the audio, wait for the
\* duration; an exception goes to the catch block, which stops the recorder
\* and rejects
WebmPlaySegment ==
  /\ video.pc = "segments" /\ video.seg <= Len(video.segments)
  /\ \E ok \in BOOLEAN :
       video' = IF ok
                THEN [video EXCEPT !.seg = @ + 1,
                                   !.events = @ \o <<VideoEvent("draw", video.seg),
                                                     VideoEvent("audio", video.seg),
                                                     VideoEvent("hold", video.seg)>>]
                ELSE [video EXCEPT !.pc = "stopping",
                                   !.events = @ \o <<VideoEvent("threw", video.seg),
                                                     VideoEvent("stop", 0)>>,
                                   !.settled = Settle(@, "rejected")]
  /\ UNCHANGED <<appVars, call, upload, player>>

\* after the loop: the 500 ms wait, then mediaRecorder.stop()
WebmStopRecording ==
  /\ video.pc = "segments" /\ video.seg > Len(video.segments)
  /\ video' = [video EXCEPT !.pc = "stopping",
                            !.events = @ \o <<VideoEvent("tail", 0), VideoEvent("stop", 0)>>]
  /\ UNCHANGED <<appVars, call, upload, player>>

\* mediaRecorder.onstop: the context is closed and the promise resolved
WebmOnStop ==
  /\ video.pc = "stopping"
  /\ video' = [video EXCEPT !.pc = "done", !.open = 0,
                            !.settled = Settle(@, "resolved")]
  /\ UNCHANGED <<appVars, call, upload, player>>

\* mediaRecorder.onerror while recording: the context is closed and the
\* promise rejected
WebmOnError ==
  /\ video.pc = "segments"
  /\ video' = [video EXCEPT !.pc = "done", !.open = 0,
                            !.events = Append(@, VideoEvent("recorderError", 0)),
                            !.settled = Settle(@, "rejected")]
  /\ UNCHANGED <<appVars, call, upload, player>>

\* ---------------------------------------------------------------- stored item audio
\* the save paths of an item's audio and the format the provider returned
\* (gemini: 'pcm', elevenlabs: 'mp3'); the Studio path re-encodes the buffer
SavePaths ==
  [path : {"batchSpeech", "batchSfx", "saveAsNew"}, format : {"pcm", "mp3"}]

\* what a save path stores under the item's audioKey and the audioFormat it
\* writes on the item. handleGenerateFiles stores the provider's base64;
\* handleSaveAsNewJob stores blobToBase64(bufferToWav(buffer)), a data URL.
PersistedItem(save) ==
  CASE save.path = "batchSpeech" ->
         [type |-> "item",
          audioFormat |-> IF save.format = "pcm" THEN "pcm" ELSE "mp3",
          stored |-> [encoding |-> save.format, dataUrl |-> FALSE]]
    [] save.path = "batchSfx" ->
         [type |-> "item", audioFormat |-> "mp3",
          stored |-> [encoding |-> "mp3", dataUrl |-> FALSE]]
    [] OTHER ->
         [type |-> "item", audioFormat |-> "pcm",
          stored |-> [encoding |-> "wav", dataUrl |-> TRUE]]

\* loadFromJob: the decoder chosen for an item
Decoder(audioFormat) ==
  IF audioFormat = "pcm" THEN "decodeRawPCM" ELSE "decodeAudioFile"

\* the decoder returns the stored audio: decodeBase64 needs bare base64,
\* decodeRawPCM reads the bytes as 16-bit samples, decodeAudioFile hands them
\* to decodeAudioData, which takes container formats
Decodes(decoder, stored) ==
  /\ ~stored.dataUrl
  /\ IF decoder = "decodeRawPCM" THEN stored.encoding = "pcm"
     ELSE stored.encoding \in {"mp3", "wav"}

\* an item's audio is saved by one of the paths
PersistCall ==
  /\ call.fn = "persistItem" /\ ~call.done
  /\ call' = [call EXCEPT !.done = TRUE, !.out = PersistedItem(call.arg)]
  /\ UNCHANGED <<appVars, procVars>>

\* ---------------------------------------------------------------- metadata
\* A text field is "none" when it is undefined or empty (falsy), else its text.
\* a || b on text fields
OrElse(a, b) == IF a # "none" THEN a ELSE b

\* the metadata of a job before file generation: the fields the user entered
\* and the podcastInfo the script generator suggested
JobMetadata ==
  [episodeTitle : {"none", "human title"},
   podcastTitle : {"none", "human podcast"},
   podcastDescription : {"none", "human description"},
   podcastInfo : [episodeTitle : {"none", "ai title"},
                  podcastName : {"none", "ai podcast"},
                  description : {"none", "ai description"}]]

\* handleGenerateFiles: the title and description it resolves and writes on the job
StoredMetadata(job) ==
  [job EXCEPT
     !.episodeTitle = OrElse(job.podcastInfo.episodeTitle,
                             OrElse(job.episodeTitle, "New Episode")),
     !.podcastDescription = OrElse(job.podcastInfo.description,
                                   OrElse(job.podcastDescription, "story text")),
     !.podcastTitle = OrElse(job.podcastInfo.podcastName,
                             OrElse(job.podcastTitle, "Podcast"))]

\* handleUploadToYouTube: the title and description it sends
UploadMetadata(job) ==
  [title |-> OrElse(job.episodeTitle,
                    OrElse(job.podcastInfo.episodeTitle,
                           OrElse(job.podcastTitle, "New Episode"))),
   description |-> OrElse(job.podcastDescription, "story text")]

\* file generation followed by the upload of the job it returned
MetadataCall ==
  /\ call.fn = "metadata" /\ ~call.done
  /\ call' = [call EXCEPT !.done = TRUE,
                          !.out = [type |-> "metadata",
                                   stored |-> StoredMetadata(call.arg),
                                   sent |-> UploadMetadata(StoredMetadata(call.arg))]]
  /\ UNCHANGED <<appVars, procVars>>

\* ---------------------------------------------------------------- specifications
\* ---------------------------------------------------------------- uploadToYouTube
\* the Range header of a 308 answer: absent, or "<form><first>-<last>"
RangeHeaders ==
  [present : {FALSE}, form : {"bytes="}, first : {0}, last : {0}]
  \cup [present : {TRUE}, form : {"bytes=", "bytes "}, first : 0..1, last : 0..MaxBytes]

\* range.match(/bytes=0-(\d+)/): the captured number, or NoMatch
NoMatch == 0 - 1
RangeMatch(range) ==
  IF range.form = "bytes=" /\ range.first = 0 THEN range.last ELSE NoMatch

\* the answers to a PUT; body: the answer's JSON has the fields the result is read from
Responses ==
  [status : {308}, range : RangeHeaders, body : {FALSE}]
  \cup [status : {200, 500}, range : {CHOOSE h \in RangeHeaders : ~h.present}, body : BOOLEAN]

UploadRuns ==
  [pc : {"init"}, totalBytes : 0..MaxBytes, bytesUploaded : {0},
   start : {0}, end : {0}, sent : {{}}, resent : {FALSE}]

\* step 1: the resumable session is requested
UploadInit ==
  /\ upload.pc = "init"
  /\ \E ok \in BOOLEAN, location \in BOOLEAN :
       upload' = [upload EXCEPT !.pc = IF ok /\ location THEN "loop" ELSE "threw"]
  /\ UNCHANGED <<appVars, call, video, player>>

\* the loop test and the PUT of the next chunk
UploadPut ==
  /\ upload.pc = "loop"
  /\ IF upload.bytesUploaded < upload.totalBytes
     THEN upload' = [upload EXCEPT
                       !.pc = "put",
                       !.start = upload.bytesUploaded,
                       !.end = Min({upload.bytesUploaded + ChunkSize, upload.totalBytes}),
                       !.resent = upload.bytesUploaded \in upload.sent,
                       !.sent = @ \cup {upload.bytesUploaded}]
     ELSE upload' = [upload EXCEPT !.pc = "threw"]
  /\ UNCHANGED <<appVars, call, video, player>>

\* the branches on the answer to the PUT
UploadResponse ==
  /\ upload.pc = "put"
  /\ \E r \in Responses :
       upload' =
         IF r.status = 308
         THEN IF r.range.present
              THEN IF RangeMatch(r.range) # NoMatch
                   THEN [upload EXCEPT !.pc = "loop",
                                       !.bytesUploaded = RangeMatch(r.range) + 1]
                   ELSE [upload EXCEPT !.pc = "loop"]
              ELSE [upload EXCEPT !.pc = "loop", !.bytesUploaded = upload.end]
         ELSE IF r.status = 200
         THEN [upload EXCEPT !.pc = IF r.body THEN "returned" ELSE "threw"]
         ELSE [upload EXCEPT !.pc = "threw"]
  /\ UNCHANGED <<appVars, call, video, player>>

\* ---------------------------------------------------------------- Player
\* currentIdx and the idx of a source are 1-based, 0 stands for -1 / null;
\* a source is "playing", "stopped" (stop() called, its ended event not yet
\* delivered) or "ended"
PlayerItems ==
  UNION {[1..n -> [type : {"speech", "sfx"}, audioBuffer : BOOLEAN]] : n \in 1..MaxPlayerItems}

PlayerRuns ==
  [items : {is \in PlayerItems : \E k \in DOMAIN is : is[k].audioBuffer},
   enableSfx : BOOLEAN, isPlaying : {FALSE}, currentIdx : {0}, active : {0},
   sources : {<<>>}, lateStart : {FALSE}]

\* stopAll, with the parent's onPlayStateChange(false, null)
stopAll(p) ==
  [p EXCEPT !.sources = IF p.active # 0
                        THEN [@ EXCEPT ![p.active].state = "stopped"]
                        ELSE @,
            !.active = 0, !.currentIdx = 0, !.isPlaying = FALSE]

playAudioBuffer(p, index) ==
  [p EXCEPT !.sources = Append(@, [idx |-> index, state |-> "playing"]),
            !.active = Len(p.sources) + 1]

RECURSIVE playItem(_, _)
playItem(p, index) ==
  IF index > Len(p.items) \/ ~p.isPlaying
  THEN stopAll(p)
  ELSE LET item == p.items[index]
           q == [p EXCEPT !.currentIdx = index]
       IN IF item.audioBuffer /\ (item.type = "speech" \/ p.enableSfx)
          THEN playAudioBuffer(q, index)
          ELSE playItem(q, index + 1)

\* togglePlay of the Studio page and the Player's effect on isPlaying
PlayerToggle ==
  /\ player.items # <<>>
  /\ LET p == [player EXCEPT !.isPlaying = ~player.isPlaying, !.lateStart = FALSE]
         q == IF ~p.isPlaying THEN stopAll(p)
              ELSE IF p.currentIdx = 0 /\ Len(p.items) > 0 THEN playItem(p, 1)
              ELSE p
     IN /\ Len(q.sources) <= MaxSources
        /\ player' = q
  /\ UNCHANGED <<appVars, call, video, upload>>

\* source.onended of source s: after its buffer has played to the end, or
\* after stop()
PlayerEnded ==
  /\ \E s \in DOMAIN player.sources :
       /\ player.sources[s].state # "ended"
       /\ LET p == [player EXCEPT !.sources[s].state = "ended", !.active = 0]
              q == playItem(p, player.sources[s].idx + 1)
          IN /\ Len(q.sources) <= MaxSources
             /\ player' = [q EXCEPT !.lateStart =
                              /\ player.sources[s].state = "stopped"
                              /\ Len(q.sources) > Len(p.sources)]
  /\ UNCHANGED <<appVars, call, video, upload>>

\* handleDeleteJob(id) on the job card of the job a batch step is working on:
\* the card's delete button stays enabled while isProcessing
DeleteRunningJob ==
  /\ ~Idle /\ page = "batch" /\ bPc \in {"filesB", "uploadB"}
  /\ HasJob(jobs, bJob.id)
  /\ \E failed \in SUBSET (KeysToDelete(getBatchJob(jobs, bJob.id)) \cap blobs) :
       /\ faults + Cardinality(failed) <= MaxFaults
       /\ deleteBatchJob(bJob.id, failed)
  /\ UNCHANGED <<nextId, page, batchVars, studioVars, cap, call, procVars, sessions>>

BatchNext ==
  \/ AddJob
  \/ handleGenerateAllScripts
  \/ handleGenerateAllFiles
  \/ handleUploadAll
  \/ handleAutoProcessAll
  \/ BatchScript
  \/ BatchFilesA
  \/ BatchFilesB
  \/ BatchUploadA
  \/ BatchUploadB

StudioNext ==
  \/ DeleteJob
  \/ handleEditJob
  \/ OpenStudio
  \/ CloseStudio
  \/ StudioGenerateScript
  \/ StudioFillMissingAudio
  \/ StudioGenerateCover
  \/ handleGenerateAll
  \/ handleSaveToJob
  \/ handleSaveAsNewJob

Init == InitWith(MaxJobsStudio)
Next == BatchNext \/ StudioNext
\* the whole program around one job
Spec == Init /\ [][Next]_vars

NextDeleteRunning == BatchNext \/ DeleteRunningJob
\* the batch page around one job, with the job card's delete button
SpecDeleteRunning == Init /\ [][NextDeleteRunning]_vars

InitBatch == InitWith(MaxJobs)
\* the batch page alone, several jobs
SpecBatch == InitBatch /\ [][BatchNext]_vars

\* the calls the functions can be given
Calls(fn, args) == [fn : {fn}, done : {FALSE}, arg : args, out : {NoOut}]

InitFunctions ==
  /\ InitStore(MaxJobsStudio)
  /\ video = NoVideo /\ upload = NoUpload /\ player = NoPlayer
  /\ \/ call \in Calls("bufferToWav", AudioBuffers)
     \/ call \in Calls("metadata", JobMetadata)
     \/ call \in Calls("persistItem", SavePaths)
     \/ call \in Calls("quantize", [sample : (0 - MaxSample)..MaxSample])
     \/ call \in Calls("mergeAudioBuffers", [buffers : ClipLists])
     \/ call \in Calls("createDynamicWebmVideo", VideoInputs)
     \/ call \in Calls("bufferToMp3", [buffer : AudioBuffers, encoderOk : BOOLEAN])
NextFunctions ==
  \/ BufferToWavCall
  \/ MetadataCall
  \/ PersistCall
  \/ QuantizeCall
  \/ MergeCall
  \/ VideoCall
  \/ MixdownCall
\* the utility functions, each applied to one input
SpecFunctions == InitFunctions /\ [][NextFunctions]_vars

InitVideo ==
  /\ InitStore(MaxJobsStudio) /\ call = NoCall /\ upload = NoUpload /\ player = NoPlayer
  /\ video \in VideoRuns
NextVideo ==
  \/ WebmDecodeAudio
  \/ WebmOpenContext
  \/ WebmPreloadImage
  \/ WebmStartRecording
  \/ WebmPlaySegment
  \/ WebmStopRecording
  \/ WebmOnStop
  \/ WebmOnError
\* one run of createWebmVideo or createDynamicWebmVideo
SpecVideo == InitVideo /\ [][NextVideo]_vars

InitUpload ==
  /\ InitStore(MaxJobsStudio) /\ call = NoCall /\ video = NoVideo /\ player = NoPlayer
  /\ upload \in UploadRuns
NextUpload ==
  \/ UploadInit
  \/ UploadPut
  \/ UploadResponse
\* one run of uploadToYouTube against an arbitrary server
SpecUpload == InitUpload /\ [][NextUpload]_vars
\* the same, where every request is answered and the loop goes on
SpecUploadFair == SpecUpload /\ WF_vars(NextUpload)

InitPlayer ==
  /\ InitStore(MaxJobsStudio) /\ call = NoCall /\ video = NoVideo /\ upload = NoUpload
  /\ player \in PlayerRuns
NextPlayer ==
  \/ PlayerToggle
  \/ PlayerEnded
\* the Player with its play/stop toggles and the sources' ended events
SpecPlayer == InitPlayer /\ [][NextPlayer]_vars

\* ---------------------------------------------------------------- properties
\* the status path, and the place of a status on it
StatusPath == <<"pending", "script_ready", "generating", "files_ready",
                "uploading", "uploaded">>
Rank(s) == CHOOSE k \in 1..Len(StatusPath) : StatusPath[k] = s

BatchSteps == {"script", "filesA", "filesB", "uploadA", "uploadB"}

\* the job the last step worked on, as it is stored now
LastJob == getBatchJob(jobs, last.job)
LastItems == LastJob.scriptData.items

\* item k of the last file generation: a synthesis call is made for it /
\* the call returns audio / the call fails
Called(k) == LastItems[k].type = "speech" \/ last.eleven
Succeeds(k) == Called(k) /\ last.outcomes[k] # "synthFail"
Failed(k) == Called(k) /\ last.outcomes[k] = "synthFail"
NoSaveFault ==
  /\ last.saveFailAt = "none"
  /\ \A k \in DOMAIN last.outcomes : last.outcomes[k] # "saveFail"

\* C1: across any step, batch or Studio, the status of a job that stays in the
\* list never moves backward along pending, script_ready, generating,
\* files_ready, uploading, uploaded.
C1_StatusNeverMovesBackward ==
  [][\A k \in 1..Len(jobs) :
       HasJob(jobs', jobs[k].id) =>
         LET a == jobs[k].status
             b == getBatchJob(jobs', jobs[k].id).status
         IN (a # "error" /\ b # "error") => Rank(a) <= Rank(b)]_vars

\* C2: after deleteBatchJob(id), none of the blob keys the job referenced is in
\* the blob store and no record with that id is in the list.
C2_DeleteRemovesEverything ==
  last.op = "delete" =>
    /\ last.keys \cap blobs = {}
    /\ ~HasJob(jobs, last.job)

\* C3: when, generating files, the synthesis call of some item fails and that of
\* another succeeds (and nothing else fails), the job reaches files_ready, the
\* merge gets exactly the clips of the successful items in script order, and
\* the failed item has no audioKey.
C3_ItemFailureIsSkipped ==
  ( /\ last.op = "filesB"
    /\ HasJob(jobs, last.job)
    /\ \E k \in DOMAIN last.outcomes : Failed(k)
    /\ \E k \in DOMAIN last.outcomes : Succeeds(k)
    /\ NoSaveFault
    /\ last.error # "Video creation failed" )
  => /\ last.outcome = "ok"
     /\ LastJob.status = "files_ready"
     /\ last.clips = Ids(SelectSeq([k \in DOMAIN last.outcomes |->
                                      [id |-> LastItems[k].id, ok |-> Succeeds(k)]],
                                   LAMBDA c : c.ok))
     /\ \A k \in DOMAIN last.outcomes : Failed(k) => LastItems[k].audioKey = NoKey
\* C4: a batch operation attempts every job it selected at its start exactly
\* once, in list order; a job whose step throws is recorded with status error
\* and the thrown message, and the loop goes on to the next job.
C4_BatchAttemptsEveryJobOnce ==
  /\ last.op = "start" =>
       Ids(bQueue) = Ids(SelectSeq(jobs, LAMBDA j : j.status = Selects(bOp)))
  /\ ~Idle =>
       attempted = SubSeq(Ids(bQueue), 1,
                          IF bPc = FirstPc(bOp) THEN bIdx - 1 ELSE bIdx)
  /\ last.done => last.attempted = last.queue
  /\ (last.op \in BatchSteps /\ last.outcome = "error") =>
       /\ LastJob.status = "error"
       /\ LastJob.error = last.error
       /\ ~last.done => /\ ~Idle
                        /\ bPc = FirstPc(bOp)
                        /\ bQueue[bIdx - 1].id = last.job

\* a two-job operation has ended, its first job failed, its second was run
C4_Witness ==
  /\ last.done
  /\ Len(last.queue) = 2
  /\ getBatchJob(jobs, last.queue[1]).status = "error"
  /\ last.job = last.queue[2]
  /\ last.outcome = "ok"

\* C5: when the upload step fails, the job gets status error and the failure
\* message, and its scriptData, its files and the blob store are unchanged.
C5_UploadFailureKeepsOutputs ==
  [][(last'.op \in {"uploadA", "uploadB"} /\ last'.outcome = "error") =>
       /\ HasJob(jobs, last'.job) /\ HasJob(jobs', last'.job)
       /\ getBatchJob(jobs', last'.job).status = "error"
       /\ getBatchJob(jobs', last'.job).error = last'.error
       /\ getBatchJob(jobs', last'.job).scriptData = getBatchJob(jobs, last'.job).scriptData
       /\ getBatchJob(jobs', last'.job).files = getBatchJob(jobs, last'.job).files
       /\ blobs' = blobs]_vars

\* the upload of a job with stored outputs has failed
C5_Witness ==
  /\ last.op = "uploadB"
  /\ last.error = "Upload failed"
  /\ LastJob.status = "error"
  /\ {LastJob.files.mp3Key, LastJob.files.webmKey, LastJob.files.coverKey} \subseteq blobs
  /\ ItemKeys(LastItems) # {}

C7_NoClipsFails ==
  ( /\ last.op = "filesB"
    /\ \A k \in DOMAIN last.outcomes : ~Succeeds(k) )
  => /\ last.outcome = "error"
     /\ ~last.merged
     /\ LastJob.status = "error"
     /\ LastJob.error = last.error

\* every speech item failed and no sound effect was asked for
C7_Witness ==
  /\ last.op = "filesB"
  /\ last.error = "No audio generated"
  /\ LastJob.status = "error"

\* C8: when there is no cover art (generation failed or no image key) and
\* nothing else fails, the job reaches files_ready with coverKey and webmKey
\* unset and the renderer is not called; a job written by the step has a
\* webmKey only if it has a coverKey.
C8_NoCoverNoVideo ==
  /\ ( /\ last.op = "filesB"
       /\ ~last.cover /\ last.merged /\ last.saveFailAt = "none" )
     => /\ last.outcome = "ok"
        /\ LastJob.status = "files_ready"
        /\ LastJob.files.coverKey = NoKey
        /\ LastJob.files.webmKey = NoKey
        /\ ~last.rendered
  /\ (last.op = "filesB" /\ last.outcome = "ok")
     => /\ LastJob.files.webmKey # NoKey => LastJob.files.coverKey # NoKey
        /\ last.rendered => last.cover

\* files were generated without a cover
C8_Witness ==
  /\ last.op = "filesB"
  /\ ~last.cover
  /\ last.outcome = "ok"
  /\ LastJob.status = "files_ready"
  /\ LastJob.files.mp3Key \in blobs

\* C9: when the video rendering fails, the job gets status error and the
\* message, and what the call made before stays stored and referenced: the
\* blob of every item that was generated, with its audioKey, and the mixdown.
C9_VideoFailureKeepsArtifacts ==
  (last.op = "filesB" /\ last.error = "Video creation failed")
  => /\ LastJob.status = "error"
     /\ LastJob.error = last.error
     /\ \A k \in DOMAIN last.outcomes :
          (Called(k) /\ last.outcomes[k] = "ok") =>
            /\ generateItemAudioKey(last.job, LastItems[k].id) \in blobs
            /\ LastItems[k].audioKey = generateItemAudioKey(last.job, LastItems[k].id)
     /\ LastJob.files.mp3Key # NoKey
     /\ LastJob.files.mp3Key \in blobs

\* C10: in every state, between handlers, a job with status files_ready,
\* uploading or uploaded has an mp3Key whose blob is stored.
C10_ReadyJobHasMixdown ==
  \A k \in 1..Len(jobs) :
    jobs[k].status \in {"files_ready", "uploading", "uploaded"} =>
      /\ jobs[k].files.mp3Key # NoKey
      /\ jobs[k].files.mp3Key \in blobs
\* C11: after a job is deleted (every delete request having succeeded), the
\* blob store holds no blob that was written on behalf of that job.
C11_DeleteLeavesNoBlobOfJob ==
  (last.op = "delete" /\ last.failed = {})
  => \A b \in blobs : b.job # last.job

\* C12: deleteBatchJob leaves no partial deletion: when the removal of some
\* blob of the job fails, the job record is still in the list.
C12_NoPartialDeletion ==
  (last.op = "delete" /\ last.failed # {})
  => HasJob(jobs, last.job)
\* the items the Studio shows when the job of the last step is opened again
Reopened == LoadItems(LastItems, blobs, dataUrlKeys)

\* C13: when a job whose items were given audio has been saved (no storage
\* write having failed) and is opened in the Studio again, every item that had
\* audio when it was saved has its audio buffer back.
C13_ReopenRestoresAudio ==
  (/\ faults = 0
   /\ last.op \in {"filesB", "saveToJob", "saveAsNew"}
   /\ last.outcome = "ok"
   /\ HasJob(jobs, last.job))
  => \A id \in last.audio :
       \E k \in DOMAIN Reopened : Reopened[k].id = id /\ Reopened[k].audioBuffer

\* the buffer given to bufferToWav and the blob it returned
WavCalled == call.fn = "bufferToWav" /\ call.done

\* C14: the output of bufferToWav holds, after its header, n*c 16-bit values,
\* and the value for frame j and channel k is the quantization of sample (k, j)
\* for every frame j of the buffer: none skipped, shifted or left zero.
C14_WavHoldsEveryFrame ==
  WavCalled =>
    LET n == call.arg.length
        c == call.arg.numberOfChannels
    IN /\ DOMAIN call.out.values = 0..(n * c - 1)
       /\ \A j \in 0..(n - 1), k \in 0..(c - 1) :
            call.out.values[j * c + k] = Quantize(Sample(call.arg.pattern, k, j))

\* C15: handleFillMissingAudio calls synthesis only for items that have no
\* audio when it is invoked; when every item has audio it makes no call,
\* returns the existing buffers and leaves the items as they are.
C15_FillCallsOnlyMissing ==
  [][last'.op = "fill" =>
       /\ \A k \in last'.keys : ~sItems[k].audioBuffer
       /\ (\A k \in 1..Len(sItems) : sItems[k].audioBuffer)
            => /\ last'.keys = {}
               /\ last'.returned = Ids(sItems)
               /\ sItems' = sItems]_vars

\* handleFillMissingAudio was invoked when every item had audio already
C15_Witness ==
  /\ last.op = "fill" /\ last.keys = {}
  /\ Len(sItems) > 0
  /\ \A k \in 1..Len(sItems) : sItems[k].audioBuffer
  /\ Len(last.returned) = Len(sItems)

\* C16: 'generate all' invoked when every item has audio and cover art,
\* compressed audio and video are present makes no synthesis, cover, merge,
\* encoding, rendering or publishing call, and the cover art and the output
\* blobs are still there afterwards.
C16_GenerateAllRedoesNothing ==
  [][(/\ last'.op = "generateAll"
      /\ Len(sItems) > 0 /\ AllAudioGenerated(sItems)
      /\ sCover /\ sPub.mp3 /\ sPub.webm)
     => /\ last'.keys = {} /\ ~last'.coverCall /\ ~last'.merged
        /\ ~last'.encoded /\ ~last'.rendered /\ ~last'.published
        /\ sCover' /\ sPub'.mp3 /\ sPub'.webm]_vars

\* file generation and upload have run on the job metadata of the call
MetadataCalled == call.fn = "metadata" /\ call.done

\* C17: the title and description that file generation stores on the job and
\* that are sent to the publisher are the human-edited values whenever those
\* are set, and the AI-suggested values only when the human-edited one is absent.
C17_HumanMetadataWins ==
  MetadataCalled =>
    /\ call.arg.episodeTitle # "none"
         => /\ call.out.stored.episodeTitle = call.arg.episodeTitle
            /\ call.out.sent.title = call.arg.episodeTitle
    /\ call.arg.podcastTitle # "none"
         => call.out.stored.podcastTitle = call.arg.podcastTitle
    /\ call.arg.podcastDescription # "none"
         => /\ call.out.stored.podcastDescription = call.arg.podcastDescription
            /\ call.out.sent.description = call.arg.podcastDescription

MergeCalled == call.fn = "mergeAudioBuffers" /\ call.done
VideoCalled == call.fn = "createDynamicWebmVideo" /\ call.done
MixdownCalled == call.fn = "bufferToMp3" /\ call.done

\* C18: mergeAudioBuffers with an empty clip list and createDynamicWebmVideo
\* with an empty segment list both fail with an error and return no buffer or
\* video blob.
C18_EmptyInputFails ==
  /\ (MergeCalled /\ call.arg.buffers = <<>>) => call.out.type = "error"
  /\ (VideoCalled /\ call.arg.segments = <<>>) => call.out.type = "error"

\* C19: createDynamicWebmVideo fails, returning no video, whenever some segment
\* has no image and no fallback cover is supplied.
C19_NoImageNoCoverFails ==
  (/\ VideoCalled
   /\ ~call.arg.defaultCover
   /\ \E k \in 1..Len(call.arg.segments) : ~call.arg.segments[k])
  => call.out.type = "error"

\* C20: when the compressed encoder cannot be loaded or throws, bufferToMp3
\* does not throw and returns the lossless encoding of the buffer, and the
\* artifact the pipeline stores and serves is declared lossless in its type,
\* its key and its file name.
C20_FallbackDeclaredLossless ==
  (MixdownCalled /\ ~call.arg.encoderOk)
  => /\ call.out.blob = bufferToWav(call.arg.buffer)
     /\ call.out.blob.type = "audio/wav"
     /\ call.out.key.kind # "mp3"
     /\ call.out.extension # "mp3"

\* C21: every audio context opened by createDynamicWebmVideo or createWebmVideo
\* is closed by the time the call settles, on success and on every failure path.
C21_ContextClosedWhenSettled ==
  video.settled # "pending" => video.open = 0

\* event e has happened in the run / every e1 has happened before every e2
Happened(e) == \E i \in 1..Len(video.events) : video.events[i] = e
Before(e1, e2) ==
  \A i, j \in 1..Len(video.events) :
    (video.events[i] = e1 /\ video.events[j] = e2) => i < j
Threw == \E k \in 1..Len(video.segments) : Happened(VideoEvent("threw", k))

\* the order of the events up to the last hold: images decoded before the
\* capture starts, no start after a failed decode, per segment draw, audio,
\* hold, and segment k only after the hold of segment k-1
OrderedUpToHolds ==
  /\ Happened(VideoEvent("start", 0))
       => \A i \in UniqueImages(video.segments, video.defaultCover) :
            /\ Happened(VideoEvent("decoded", i))
            /\ Before(VideoEvent("decoded", i), VideoEvent("start", 0))
  /\ (\E i \in 1..MaxImages : Happened(VideoEvent("decodeFailed", i)))
       => ~Happened(VideoEvent("start", 0))
  /\ \A k \in 1..Len(video.segments) :
       /\ Happened(VideoEvent("draw", k))
            => /\ Happened(VideoEvent("start", 0))
               /\ Before(VideoEvent("start", 0), VideoEvent("draw", k))
               /\ k > 1 => /\ Happened(VideoEvent("hold", k - 1))
                           /\ Before(VideoEvent("hold", k - 1), VideoEvent("draw", k))
       /\ Happened(VideoEvent("audio", k))
            => /\ Happened(VideoEvent("draw", k))
               /\ Before(VideoEvent("draw", k), VideoEvent("audio", k))
       /\ Happened(VideoEvent("hold", k))
            => /\ Happened(VideoEvent("audio", k))
               /\ Before(VideoEvent("audio", k), VideoEvent("hold", k))

\* the capture is stopped only after every hold and the trailing hold
StopAfterLastHold ==
  /\ Happened(VideoEvent("tail", 0))
  /\ Before(VideoEvent("tail", 0), VideoEvent("stop", 0))
  /\ \A k \in 1..Len(video.segments) :
       /\ Happened(VideoEvent("hold", k))
       /\ Before(VideoEvent("hold", k), VideoEvent("tail", 0))

RECURSIVE DurationUpTo(_)
DurationUpTo(k) ==
  IF k = 0 THEN 0 ELSE DurationUpTo(k - 1) + Duration(call.arg.buffers[k])

\* C23: when mergeAudioBuffers returns, clip k starts at the sum of the
\* durations of the clips before it, the result is one mono buffer of
\* ceil(total duration * 44100) frames, and the clips are all there, in input
\* order, none overlapping another.
C23_MergePlacesClipsInOrder ==
  (MergeCalled /\ call.out.type = "AudioBuffer") =>
    LET n == Len(call.arg.buffers)
        placed == call.out.placed
    IN /\ Len(placed) = n
       /\ \A k \in 1..n :
            /\ placed[k].clip = k
            /\ placed[k].start = DurationUpTo(k - 1)
            /\ placed[k].duration = Duration(call.arg.buffers[k])
       /\ \A k, l \in 1..n :
            k < l => placed[k].start + placed[k].duration <= placed[l].start
       /\ call.out.numberOfChannels = 1
       /\ (call.out.length - 1) * TicksPerSecond < DurationUpTo(n) * ExportRate
       /\ DurationUpTo(n) * ExportRate <= call.out.length * TicksPerSecond

\* a merge of clips of both sample rates whose first clip has duration zero
C23_Witness ==
  /\ MergeCalled /\ call.out.type = "AudioBuffer"
  /\ Len(call.arg.buffers) = MaxClips
  /\ call.arg.buffers[1].length = 0
  /\ call.arg.buffers[MaxClips].sampleRate = ClipRate
  /\ call.out.placed[MaxClips].start = 0

\* a / b rounded to the nearest integer, a half going away from zero
RoundHalfAway(a, b) ==
  IF a >= 0 THEN (2 * a + b) \div (2 * b) ELSE 0 - ((2 * (0 - a) + b) \div (2 * b))

\* the stated rule: clamp to [-1, 1], scale negative samples by 32768 and the
\* others by 32767, round half away from zero
Int16Rule(v) ==
  LET s == IF v < 0 - Unit THEN 0 - Unit ELSE IF v > Unit THEN Unit ELSE v
  IN IF s < 0 THEN RoundHalfAway(s * 32768, Unit) ELSE RoundHalfAway(s * 32767, Unit)

\* C24: bufferToWav and bufferToMp3 derive the 16-bit value of a sample by one
\* and the same rule: clamp, scale negatives by 32768 and the others by 32767,
\* round half away from zero.
C24_OneQuantizationRule ==
  (call.fn = "quantize" /\ call.done)
  => /\ call.out.wav = Int16Rule(call.arg.sample)
     /\ call.out.mp3 = Int16Rule(call.arg.sample)

\* C25: in the Studio 'generate all' flow the clip list handed to
\* mergeAudioBuffers holds one clip for every item that has audio once the
\* audio step has finished, in script order, also when some items had audio
\* before the run and only the others were synthesized during it.
C25_GenerateAllMergesEveryClip ==
  (last.op = "generateAll" /\ last.outcome = "ok")
  => last.clips = Ids(SelectSeq(sItems, LAMBDA x : x.audioBuffer))

\* C26: the audioFormat of a persisted item names the encoding of the data
\* stored under its audioKey, so the decoder loadFromJob selects accepts the
\* stored data, for items saved by batch file generation and by the Studio
\* 'Save to Batch List' action.
C26_FormatNamesStoredEncoding ==
  (call.fn = "persistItem" /\ call.done)
  => /\ call.out.audioFormat = call.out.stored.encoding
     /\ Decodes(Decoder(call.out.audioFormat), call.out.stored)

\* C27: if a job is deleted while a batch step on that job is still running,
\* then once the step has finished no record of the job exists in metadata
\* (the step does not re-create it) and no blob written for that job remains
\* in the store.
C27_DeletedJobLeavesNothing ==
  (last.op \in {"filesB", "uploadB"} /\ last.gone)
  => /\ ~HasJob(jobs, last.job)
     /\ \A b \in blobs : b.job # last.job

\* the half of C27 about the record: the step does not re-create it
C27_RecordNotRecreated ==
  (last.op \in {"filesB", "uploadB"} /\ last.gone) => ~HasJob(jobs, last.job)

\* C28: uploadToYouTube terminates for every sequence of server responses: it
\* returns a result after a success response or throws, and it does not send
\* the same byte range again without bound.
C28_UploadTerminates == <>(upload.pc \in {"returned", "threw"})

Playing == {s \in DOMAIN player.sources : player.sources[s].state = "playing"}
\* the sources whose ended event will go on to the next item
Advancing ==
  IF player.isPlaying
  THEN {s \in DOMAIN player.sources : player.sources[s].state # "ended"}
  ELSE {}

\* C29: in the Player, for any interleaving of play/stop toggles and 'ended'
\* callbacks, at most one audio source is playing and at most one playback
\* chain is advancing through the items; a source stopped by stopAll never
\* starts the next item after playback has been restarted.
C29_OnePlaybackChain ==
  /\ Cardinality(Playing) <= 1
  /\ Cardinality(Advancing) <= 1
  /\ ~player.lateStart

\* C30: a persisted job carries an error message exactly when its status is
\* error: every transition out of error to another status clears the error
\* field.
C30_ErrorIffStatusError ==
  \A k \in 1..Len(jobs) : (jobs[k].error # "none") <=> (jobs[k].status = "error")

====
